---- MODULE Spec2Model ----
(***************************************************************************)
(* EcoGuardian: the ingestion handler receive_sensor_data, the automation  *)
(* rules run_automation, the device actuator activate_device, the cooldown *)
(* check should_send_alert and the alert dispatcher send_alert of          *)
(* ecoguardian/views.py, over the tables declared in ecoguardian/models.py.*)
(*                                                                         *)
(* Time is counted in whole minutes (the unit of alert_cooldown_minutes).  *)
(* Sensor values are integers standing for the floats of the readings.     *)
(* Python's None is the empty sequence <<>>; a set timestamp t is <<t>>.   *)
(***************************************************************************)
EXTENDS Integers, Sequences, FiniteSets, TLC

VARIABLES
    now,        \* timezone.now(), in minutes
    sensors,    \* EcoGuardianDevice table: device_id -> [last_seen]
    readings,   \* EnvironmentalData table, in id order (id = index)
    configs,    \* SystemConfiguration table, in pk order
    exams,      \* ExamSchedule table (a set of rows)
    controls,   \* ControlDevice table: name -> row
    alerts,     \* AlertLog table, in id order (id = index)
    response,   \* the JsonResponse of the request answered last
    reqs,       \* the requests the threaded server is serving: request -> frame
    calls       \* the direct calls of a function so far, each with the table
                \* before and after it and what it returned

vars == << now, sensors, readings, configs, exams, controls, alerts, response, reqs, calls >>

(***************************************************************************)
(* Bounds of the model.                                                    *)
(***************************************************************************)
MaxTime == 2
MaxReadings == 2
MaxCalls == 3
MaxSamples == 4
MaxTrendSamples == 7
ShortCooldown == 1

(***************************************************************************)
(* Program constants.                                                      *)
(***************************************************************************)
DefaultTempThreshold == 26
DefaultNoiseThreshold == 60
DefaultAirQualityThreshold == 55
DefaultCooldownMinutes == 5
DefaultStrictNoiseThreshold == 50
TemperatureTrendLimit == 8
AirQualityTrendLimit == 15
NoiseTrendLimit == 20
TrendWindow == 5

None == <<>>
Some(t) == <<t>>

DEVICE_TYPES == {"AC", "FAN", "ALARM", "SCREEN"}
ALERT_TYPES == {"TEMP_HIGH", "NOISE_HIGH", "AIR_POOR", "ANOMALY", "MULTIPLE"}
ALERT_CHANNELS == {"SMS", "EMAIL", "SCREEN", "WHATSAPP", "SYSTEM"}

\* SystemConfiguration(): a row with every field at its declared default.
DefaultConfig ==
    [ temp_threshold |-> DefaultTempThreshold,
      noise_threshold |-> DefaultNoiseThreshold,
      air_quality_threshold |-> DefaultAirQualityThreshold,
      guard_phone |-> "+254700000000",
      admin_email |-> "admin@uon.ac.ke",
      auto_ac_enabled |-> TRUE,
      auto_ventilation_enabled |-> TRUE,
      alerts_enabled |-> TRUE,
      ai_analysis_enabled |-> TRUE,
      alert_cooldown_minutes |-> DefaultCooldownMinutes ]

\* ControlDevice(name, device_type): is_active defaults to False, last_activated to None.
NewControlDevice(ty) == [ device_type |-> ty, is_active |-> FALSE, last_activated |-> None ]

\* The names of the ControlDevice rows of a type.
OfTypeIn(ctl, device_type) == { d \in DOMAIN ctl : ctl[d].device_type = device_type }

\* activate_device without the assignment of last_activated
activate_device_no_stamp(ctl, device_type, t) ==
    [ controls |->
        [ d \in DOMAIN ctl |->
            IF ctl[d].device_type = device_type
            THEN [ ctl[d] EXCEPT !.is_active = TRUE ]
            ELSE ctl[d] ],
      printed |-> Cardinality({ d \in DOMAIN ctl : ctl[d].device_type = device_type }),
      returned |-> None ]

\* activate_device switching the devices over instead of on
activate_device_toggle(ctl, device_type, t) ==
    [ controls |->
        [ d \in DOMAIN ctl |->
            IF ctl[d].device_type = device_type
            THEN [ ctl[d] EXCEPT !.is_active = ~ @, !.last_activated = Some(t) ]
            ELSE ctl[d] ],
      printed |-> Cardinality({ d \in DOMAIN ctl : ctl[d].device_type = device_type }),
      returned |-> None ]

\* activate_device switching the devices of the other types off
activate_device_exclusive(ctl, device_type, t) ==
    [ controls |->
        [ d \in DOMAIN ctl |->
            IF ctl[d].device_type = device_type
            THEN [ ctl[d] EXCEPT !.is_active = TRUE, !.last_activated = Some(t) ]
            ELSE [ ctl[d] EXCEPT !.is_active = FALSE ] ],
      printed |-> Cardinality({ d \in DOMAIN ctl : ctl[d].device_type = device_type }),
      returned |-> None ]

(***************************************************************************)
(* activate_device(device_type): every ControlDevice row of the type is    *)
(* switched on and stamped; the function has no return statement.          *)
(***************************************************************************)
activate_device(ctl, device_type, t) ==
    [ controls |->
        [ d \in DOMAIN ctl |->
            IF ctl[d].device_type = device_type
            THEN [ ctl[d] EXCEPT !.is_active = TRUE, !.last_activated = Some(t) ]
            ELSE ctl[d] ],
      printed |-> Cardinality({ d \in DOMAIN ctl : ctl[d].device_type = device_type }),
      returned |-> None ]

\* should_send_alert with the comparison created_at > cooldown_time
should_send_alert_gt(al, alert_type, config, t) ==
    LET cooldown_time == t - config.alert_cooldown_minutes
    IN  ~ \E i \in 1..Len(al) :
            /\ al[i].alert_type = alert_type
            /\ al[i].created_at > cooldown_time

\* should_send_alert without the alert_type=alert_type term of the filter
should_send_alert_any_type(al, alert_type, config, t) ==
    LET cooldown_time == t - config.alert_cooldown_minutes
    IN  ~ \E i \in 1..Len(al) : al[i].created_at >= cooldown_time

\* should_send_alert looking at the newest AlertLog row only
should_send_alert_latest_only(al, alert_type, config, t) ==
    LET cooldown_time == t - config.alert_cooldown_minutes
    IN  ~ /\ Len(al) > 0
          /\ al[Len(al)].alert_type = alert_type
          /\ al[Len(al)].created_at >= cooldown_time

(***************************************************************************)
(* should_send_alert(alert_type, config): no AlertLog row of the type has  *)
(* created_at >= now - alert_cooldown_minutes.                             *)
(***************************************************************************)
should_send_alert(al, alert_type, config, t) ==
    LET cooldown_time == t - config.alert_cooldown_minutes
    IN  ~ \E i \in 1..Len(al) :
            /\ al[i].alert_type = alert_type
            /\ al[i].created_at >= cooldown_time

\* AlertLog.objects.create(...): created_at is auto_now_add.
NewAlertLog(id, env_id, alert_type, severity, channel, message, recipient, t) ==
    [ id |-> id, data |-> env_id, alert_type |-> alert_type, severity |-> severity,
      channel |-> channel, message |-> message, recipient |-> recipient,
      created_at |-> t, is_resolved |-> FALSE ]

\* send_alert creating the SMS row only
send_alert_sms_only(al, alert_type, env_id, message, config, severity, t, fail) ==
    LET sms == NewAlertLog(Len(al) + 1, env_id, alert_type, severity, "SMS",
                           message, config.guard_phone, t)
        alerts_created == IF fail = "SMS" THEN << >> ELSE << sms >>
    IN  [ alerts |-> al \o alerts_created,
          alerts_created |-> alerts_created,
          raised |-> FALSE ]

\* send_alert without its except clause: the exception of a failed create propagates
send_alert_no_except(al, alert_type, env_id, message, config, severity, t, fail) ==
    LET sms   == NewAlertLog(Len(al) + 1, env_id, alert_type, severity, "SMS",
                             message, config.guard_phone, t)
        email == NewAlertLog(Len(al) + 2, env_id, alert_type, severity, "EMAIL",
                             message, config.admin_email, t)
        alerts_created ==
            IF fail = "SMS" THEN << >>
            ELSE IF fail = "EMAIL" THEN << sms >>
            ELSE << sms, email >>
    IN  [ alerts |-> al \o alerts_created,
          alerts_created |-> alerts_created,
          raised |-> fail # "none" ]

(***************************************************************************)
(* send_alert(alert_type, env_data, message, config, severity): one try    *)
(* block creates the SMS row and then the EMAIL row; an exception raised   *)
(* by either create ends the block and is swallowed by the except clause.  *)
(* fail names the create that raises ("none": neither does).               *)
(***************************************************************************)
send_alert(al, alert_type, env_id, message, config, severity, t, fail) ==
    LET sms   == NewAlertLog(Len(al) + 1, env_id, alert_type, severity, "SMS",
                             message, config.guard_phone, t)
        email == NewAlertLog(Len(al) + 2, env_id, alert_type, severity, "EMAIL",
                             message, config.admin_email, t)
        alerts_created ==
            IF fail = "SMS" THEN << >>
            ELSE IF fail = "EMAIL" THEN << sms >>
            ELSE << sms, email >>
    IN  [ alerts |-> al \o alerts_created,
          alerts_created |-> alerts_created,
          raised |-> FALSE ]

(***************************************************************************)
(* run_automation(env_data, config), rule by rule.  A frame is the state   *)
(* the function works on: env (the env_data object), alerts and controls   *)
(* (the tables), results (the dict it returns), raised (an exception is    *)
(* propagating, so the remaining statements are skipped).                  *)
(***************************************************************************)
\* the threshold with the exam row ignored
noise_threshold_of_config(exam, config) == config.noise_threshold

\* lines 158-169: the exam row the query returned (None when there is none)
noise_threshold_of(exam, config) ==
    IF exam # None THEN exam[1].strict_noise_threshold ELSE config.noise_threshold

\* what follows a call of send_alert inside a rule: results["alerts_sent"].append(label),
\* unless the call raised
after_send(f, label, s) ==
    IF s.raised
    THEN [ f EXCEPT !.alerts = s.alerts, !.raised = TRUE ]
    ELSE [ f EXCEPT !.alerts = s.alerts, !.results.alerts_sent = Append(@, label) ]

\* the call of send_alert inside a rule and the append that follows it
alert_step(f, alert_type, message, severity, label, config, t, fail) ==
    after_send(f, label,
               send_alert(f.alerts, alert_type, f.env.id, message, config, severity, t, fail))

\* the temperature rule with >= for >
rule_temperature_ge(f, config, t, fail) ==
    IF f.raised THEN f
    ELSE IF f.env.temperature >= config.temp_threshold /\ config.auto_ac_enabled
    THEN LET g == [ f EXCEPT !.controls = activate_device(f.controls, "AC", t).controls,
                             !.env.ac_activated = TRUE,
                             !.results.ac_activated = TRUE ]
         IN  IF config.alerts_enabled /\ should_send_alert(g.alerts, "TEMP_HIGH", config, t)
             THEN alert_step(g, "TEMP_HIGH",
                             [ text |-> "High temperature: {}°C. AC activated.",
                               value |-> g.env.temperature ],
                             "medium", "temperature", config, t, fail)
             ELSE g
    ELSE f

\* the temperature rule actuating only when its alert is due
rule_temperature_alert_gated(f, config, t, fail) ==
    IF f.raised THEN f
    ELSE IF /\ f.env.temperature > config.temp_threshold /\ config.auto_ac_enabled
            /\ config.alerts_enabled /\ should_send_alert(f.alerts, "TEMP_HIGH", config, t)
    THEN alert_step([ f EXCEPT !.controls = activate_device(f.controls, "AC", t).controls,
                               !.env.ac_activated = TRUE,
                               !.results.ac_activated = TRUE ],
                    "TEMP_HIGH",
                    [ text |-> "High temperature: {}°C. AC activated.",
                      value |-> f.env.temperature ],
                    "medium", "temperature", config, t, fail)
    ELSE f

\* 1. TEMPERATURE CONTROL
rule_temperature(f, config, t, fail) ==
    IF f.raised THEN f
    ELSE IF f.env.temperature > config.temp_threshold /\ config.auto_ac_enabled
    THEN LET g == [ f EXCEPT !.controls = activate_device(f.controls, "AC", t).controls,
                             !.env.ac_activated = TRUE,
                             !.results.ac_activated = TRUE ]
         IN  IF config.alerts_enabled /\ should_send_alert(g.alerts, "TEMP_HIGH", config, t)
             THEN alert_step(g, "TEMP_HIGH",
                             [ text |-> "High temperature: {}°C. AC activated.", value |-> g.env.temperature ],
                             "medium", "temperature", config, t, fail)
             ELSE g
    ELSE f

\* the air quality rule alerting whatever alerts_enabled is
rule_air_quality_always_alerting(f, config, t, fail) ==
    IF f.raised THEN f
    ELSE IF f.env.air_quality > config.air_quality_threshold /\ config.auto_ventilation_enabled
    THEN LET g == [ f EXCEPT !.controls = activate_device(f.controls, "FAN", t).controls,
                             !.env.ventilation_activated = TRUE,
                             !.results.ventilation_activated = TRUE ]
         IN  IF should_send_alert(g.alerts, "AIR_POOR", config, t)
             THEN alert_step(g, "AIR_POOR",
                             [ text |-> "Poor air quality: {} AQI. Ventilation activated.",
                               value |-> g.env.air_quality ],
                             "medium", "air_quality", config, t, fail)
             ELSE g
    ELSE f

\* 2. AIR QUALITY CONTROL
rule_air_quality(f, config, t, fail) ==
    IF f.raised THEN f
    ELSE IF f.env.air_quality > config.air_quality_threshold /\ config.auto_ventilation_enabled
    THEN LET g == [ f EXCEPT !.controls = activate_device(f.controls, "FAN", t).controls,
                             !.env.ventilation_activated = TRUE,
                             !.results.ventilation_activated = TRUE ]
         IN  IF config.alerts_enabled /\ should_send_alert(g.alerts, "AIR_POOR", config, t)
             THEN alert_step(g, "AIR_POOR",
                             [ text |-> "Poor air quality: {} AQI. Ventilation activated.",
                               value |-> g.env.air_quality ],
                             "medium", "air_quality", config, t, fail)
             ELSE g
    ELSE f

\* line 201: env_data.alert_sent = True, reached when send_alert returned
mark_alert_sent(g) == IF g.raised THEN g ELSE [ g EXCEPT !.env.alert_sent = TRUE ]

\* the noise rule switching the SCREEN devices on when its alert has been sent
rule_noise_with_screen(f, noise_threshold, config, t, fail) ==
    IF f.raised THEN f
    ELSE IF f.env.noise_level > noise_threshold
    THEN IF config.alerts_enabled /\ should_send_alert(f.alerts, "NOISE_HIGH", config, t)
         THEN [ mark_alert_sent(alert_step(f, "NOISE_HIGH",
                                           [ text |-> "High noise: {} dB detected!",
                                             value |-> f.env.noise_level ],
                                           "high", "noise", config, t, fail))
                    EXCEPT !.controls = activate_device(f.controls, "SCREEN", t).controls ]
         ELSE f
    ELSE f

\* 3. NOISE CONTROL
rule_noise(f, noise_threshold, config, t, fail) ==
    IF f.raised THEN f
    ELSE IF f.env.noise_level > noise_threshold
    THEN IF config.alerts_enabled /\ should_send_alert(f.alerts, "NOISE_HIGH", config, t)
         THEN mark_alert_sent(alert_step(f, "NOISE_HIGH",
                                         [ text |-> "High noise: {} dB detected!",
                                           value |-> f.env.noise_level ],
                                         "high", "noise", config, t, fail))
         ELSE f
    ELSE f

\* the anomaly rule standing back when the reading already raised an alert
rule_anomaly_instead(f, config, t, fail) ==
    IF f.raised THEN f
    ELSE IF f.env.is_anomaly /\ config.ai_analysis_enabled /\ f.results.alerts_sent = << >>
    THEN IF config.alerts_enabled /\ should_send_alert(f.alerts, "ANOMALY", config, t)
         THEN alert_step(f, "ANOMALY", [ text |-> "Anomaly detected: {}",
                                           anomaly_type |-> f.env.anomaly_type ],
                         "medium", "anomaly", config, t, fail)
         ELSE f
    ELSE f

\* 4. ANOMALY DETECTION (rule-based)
rule_anomaly(f, config, t, fail) ==
    IF f.raised THEN f
    ELSE IF f.env.is_anomaly /\ config.ai_analysis_enabled
    THEN IF config.alerts_enabled /\ should_send_alert(f.alerts, "ANOMALY", config, t)
         THEN alert_step(f, "ANOMALY", [ text |-> "Anomaly detected: {}",
                                           anomaly_type |-> f.env.anomaly_type ],
                         "medium", "anomaly", config, t, fail)
         ELSE f
    ELSE f

EmptyResults ==
    [ ac_activated |-> FALSE, ventilation_activated |-> FALSE, alerts_sent |-> << >> ]

\* lines 212-213: env_data.save() writes the row back and results is returned
save_and_return(rd, f) ==
    [ readings |-> IF f.raised THEN rd ELSE [ rd EXCEPT ![f.env.id] = f.env ],
      alerts |-> f.alerts,
      controls |-> f.controls,
      results |-> f.results,
      raised |-> f.raised ]

\* The whole function: the four rules in order on the frame of the call.
run_automation(rd, al, ctl, exam, env_data, config, t, fail) ==
    save_and_return(rd,
        rule_anomaly(
            rule_noise(
                rule_air_quality(
                    rule_temperature(
                        [ env |-> env_data, alerts |-> al, controls |-> ctl,
                          results |-> EmptyResults, raised |-> FALSE ],
                        config, t, fail),
                    config, t, fail),
                noise_threshold_of(exam, config), config, t, fail),
            config, t, fail))

(***************************************************************************)
(* receive_sensor_data(request).  A request body is either not JSON or a   *)
(* JSON object whose fields are absent, a number, or a non-numeric string. *)
(***************************************************************************)
Absent == [ k |-> "absent", v |-> 0 ]
Num(n) == [ k |-> "num", v |-> n ]
Str == [ k |-> "str", v |-> 0 ]

\* float(data.get(key, 0)): the default 0 for an absent key, ValueError for a
\* string that is no number.
float_raises(field) == field.k = "str"
float_of(field) == IF field.k = "num" THEN field.v ELSE 0

\* data.get('device_id', 'default_device')
device_id_of(body) == IF body.device_id = "" THEN "default_device" ELSE body.device_id

\* EcoGuardianDevice.objects.get_or_create(device_id=...), then last_seen = now, save()
touch_sensor(sn, device_id, t) ==
    [ d \in DOMAIN sn \cup { device_id } |->
        IF d = device_id THEN [ last_seen |-> t ] ELSE sn[d] ]

\* EnvironmentalData.objects.create(device, temperature, air_quality, noise_level)
NewReading(id, device_id, body, t) ==
    [ id |-> id, device |-> device_id, timestamp |-> t,
      temperature |-> float_of(body.temperature),
      air_quality |-> float_of(body.air_quality),
      noise_level |-> float_of(body.noise_level),
      ai_score |-> None, anomaly_type |-> "None", is_anomaly |-> FALSE,
      ac_activated |-> FALSE, ventilation_activated |-> FALSE, alert_sent |-> FALSE ]

\* the rule-based analysis testing the noise before the temperature
analyse_noise_first(env, config) ==
    IF env.noise_level > config.noise_threshold
    THEN [ env EXCEPT !.is_anomaly = TRUE, !.anomaly_type = "high_noise" ]
    ELSE IF env.temperature > config.temp_threshold
    THEN [ env EXCEPT !.is_anomaly = TRUE, !.anomaly_type = "high_temperature" ]
    ELSE IF env.air_quality > config.air_quality_threshold
    THEN [ env EXCEPT !.is_anomaly = TRUE, !.anomaly_type = "poor_air_quality" ]
    ELSE env

\* lines 106-122: the rule-based analysis written onto env_data
analyse(env, config) ==
    IF env.temperature > config.temp_threshold
    THEN [ env EXCEPT !.is_anomaly = TRUE, !.anomaly_type = "high_temperature" ]
    ELSE IF env.noise_level > config.noise_threshold
    THEN [ env EXCEPT !.is_anomaly = TRUE, !.anomaly_type = "high_noise" ]
    ELSE IF env.air_quality > config.air_quality_threshold
    THEN [ env EXCEPT !.is_anomaly = TRUE, !.anomaly_type = "poor_air_quality" ]
    ELSE env

\* The JsonResponse values of the handler.
ErrorResponse(code, error) ==
    [ code |-> code, status |-> "error", error |-> error, reading_id |-> None,
      automation |-> None, ai_analysis |-> None, reading_count |-> None ]

SuccessResponse(env, config, results, count) ==
    [ code |-> 200, status |-> "success", error |-> "", reading_id |-> Some(env.id),
      automation |-> Some(results),
      ai_analysis |-> IF config.ai_analysis_enabled
                      THEN Some([ is_anomaly |-> env.is_anomaly, score |-> env.ai_score ])
                      ELSE None,
      reading_count |-> Some(count) ]

\* The tables the handler reads and writes.
Tables(sn, rd, cf, al, ctl) ==
    [ sensors |-> sn, readings |-> rd, configs |-> cf, alerts |-> al, controls |-> ctl ]

\* lines 101-104 when no other request interleaves: first(), else create()
config_of(cf) == IF cf = << >> THEN << DefaultConfig >> ELSE cf

\* lines 127-143: the tables as run_automation left them and the JsonResponse
respond(db, env_id, device_id, config, auto) ==
    [ db |-> [ db EXCEPT !.readings = auto.readings, !.alerts = auto.alerts,
                         !.controls = auto.controls ],
      response |->
        IF auto.raised
        THEN ErrorResponse(500, "alert failed")
        ELSE SuccessResponse(auto.readings[env_id], config, auto.results,
                Cardinality({ i \in 1..Len(auto.readings) :
                                auto.readings[i].device = device_id })) ]

\* lines 122-125: env_data.save() and the call of run_automation
save_and_automate(db, exam, env, config, t, fail) ==
    respond(db, env.id, env.device, config,
            run_automation([ db.readings EXCEPT ![env.id] = env ], db.alerts, db.controls,
                           exam, env, config, t, fail))

\* lines 106-138: the analysis, env_data.save(), run_automation and the response,
\* for the reading env_data already in the table and the config object in hand.
finish_request(db, exam, env_data, config, t, fail) ==
    save_and_automate(db, exam, analyse(env_data, config), config, t, fail)

\* lines 77-99: json.loads, the sensor row, the floats and the new reading.
\* raised: the except clause that answers (400 or 500), 0 when none does.
ingest(db, body, t) ==
    IF ~ body.json
    THEN [ db |-> db, raised |-> 400, env |-> None ]
    ELSE IF \/ float_raises(body.temperature)
            \/ float_raises(body.air_quality)
            \/ float_raises(body.noise_level)
    THEN [ db |-> [ db EXCEPT !.sensors = touch_sensor(@, device_id_of(body), t) ],
           raised |-> 500, env |-> None ]
    ELSE [ db |-> [ db EXCEPT !.sensors = touch_sensor(@, device_id_of(body), t),
                              !.readings = Append(@, NewReading(Len(@) + 1,
                                                        device_id_of(body), body, t)) ],
           raised |-> 0,
           env |-> Some(NewReading(Len(db.readings) + 1, device_id_of(body), body, t)) ]

\* lines 101-138 after an ingest that raised nothing, with no other request in between
configure_and_finish(db, exam, env_data, t, fail) ==
    finish_request([ db EXCEPT !.configs = config_of(@) ], exam, env_data,
                   config_of(db.configs)[1], t, fail)

\* the except clauses of lines 140-143, or the rest of the handler
after_ingest(got, exam, t, fail) ==
    IF got.raised = 400
    THEN [ db |-> got.db, response |-> ErrorResponse(400, "Invalid JSON") ]
    ELSE IF got.raised = 500
    THEN [ db |-> got.db,
           response |-> ErrorResponse(500, "could not convert string to float") ]
    ELSE configure_and_finish(got.db, exam, got.env[1], t, fail)

\* The handler run from its first line to its return, with no other request
\* in between.  exam is the row the ExamSchedule query of run_automation returns.
receive_sensor_data(db, exam, body, t, fail) ==
    after_ingest(ingest(db, body, t), exam, t, fail)

(***************************************************************************)
(* The ExamSchedule query of run_automation: rows with start_time <= now,  *)
(* end_time >= now and is_active, in the Meta ordering -start_time;        *)
(* first() returns the head of that order, any of the heads on a tie.      *)
(***************************************************************************)
ongoing_exam(ex, t) ==
    LET on == { e \in ex : e.start_time <= t /\ e.end_time >= t /\ e.is_active }
    IN  IF on = {} THEN { None }
        ELSE { Some(e) : e \in { x \in on : \A o \in on : o.start_time <= x.start_time } }

(***************************************************************************)
(* The states the deployment starts from.                                  *)
(***************************************************************************)
SensorIds == { "arduino_01" }

\* Every flag set, as the defaults have it, with the short cooldown.
AllEnabled == [ DefaultConfig EXCEPT !.alert_cooldown_minutes = ShortCooldown ]

\* A SystemConfiguration row as an administrator may have saved it: every flag
\* set, one flag cleared, or every flag cleared.
AdminConfigs ==
    { AllEnabled,
      [ AllEnabled EXCEPT !.auto_ac_enabled = FALSE ],
      [ AllEnabled EXCEPT !.auto_ventilation_enabled = FALSE ],
      [ AllEnabled EXCEPT !.alerts_enabled = FALSE ],
      [ AllEnabled EXCEPT !.ai_analysis_enabled = FALSE ],
      [ AllEnabled EXCEPT !.auto_ac_enabled = FALSE, !.auto_ventilation_enabled = FALSE,
                          !.alerts_enabled = FALSE, !.ai_analysis_enabled = FALSE ] }

ExamRow(id, start, end, active, strict) ==
    [ id |-> id, start_time |-> start, end_time |-> end, is_active |-> active,
      strict_noise_threshold |-> strict ]

ActiveExam == ExamRow(1, 1, 1, TRUE, DefaultStrictNoiseThreshold)
InactiveExam == ExamRow(1, 1, 1, FALSE, DefaultStrictNoiseThreshold)

\* Exam windows that overlap: the second starts while the first is ongoing, the
\* third starts with the first; the later ones allow more noise.
EarlyExam == ExamRow(1, 0, MaxTime, TRUE, DefaultStrictNoiseThreshold)
LateExam == ExamRow(2, 1, MaxTime, TRUE, DefaultStrictNoiseThreshold + 5)
TwinExam == ExamRow(3, 0, MaxTime, TRUE, DefaultStrictNoiseThreshold + 5)

Provisioned ==
    [ d \in { "ac_1", "ac_2", "fan_1", "screen_1" } |->
        NewControlDevice(CASE d = "ac_1" -> "AC" [] d = "ac_2" -> "AC"
                           [] d = "fan_1" -> "FAN" [] OTHER -> "SCREEN") ]

\* <<configs, exams, controls>>: the tables as provisioned before the first request.
Deployments ==
    (({ << >> } \cup { << c >> : c \in AdminConfigs })
        \X { {}, { ActiveExam } } \X { Provisioned })
    \cup { << << AllEnabled >>, { InactiveExam }, Provisioned >>,
           << << AllEnabled >>, {}, << >> >> }

NoResponse ==
    [ code |-> 0, status |-> "none", error |-> "", reading_id |-> None,
      automation |-> None, ai_analysis |-> None, reading_count |-> None ]

Reqs == { "req_1", "req_2" }
IdleFrame == [ pc |-> "idle", env |-> None, config |-> None ]

Init ==
    /\ now = 0
    /\ sensors = << >>
    /\ readings = << >>
    /\ alerts = << >>
    /\ \E dep \in Deployments :
        /\ configs = dep[1]
        /\ exams = dep[2]
        /\ controls = dep[3]
    /\ response = NoResponse
    /\ reqs = [ r \in Reqs |-> IdleFrame ]
    /\ calls = << >>

(***************************************************************************)
(* The request bodies the sensors post.                                    *)
(***************************************************************************)
Body(dev, temp, air, noise) ==
    [ json |-> TRUE, device_id |-> dev, temperature |-> temp, air_quality |-> air,
      noise_level |-> noise ]

Temperatures == { DefaultTempThreshold, DefaultTempThreshold + 1 }
AirQualities == { DefaultAirQualityThreshold, DefaultAirQualityThreshold + 1 }
NoiseLevels == { DefaultStrictNoiseThreshold, DefaultStrictNoiseThreshold + 5,
                 DefaultNoiseThreshold + 1 }

WellFormedBodies ==
    { Body(dev, Num(temp), Num(air), Num(noise)) :
        dev \in SensorIds, temp \in Temperatures, air \in AirQualities,
        noise \in NoiseLevels }

MalformedBodies ==
    { [ Body("arduino_01", Absent, Absent, Absent) EXCEPT !.json = FALSE ],
      Body("", Str, Num(DefaultAirQualityThreshold + 1), Num(DefaultNoiseThreshold + 1)),
      Body("arduino_01", Absent, Num(DefaultAirQualityThreshold + 1),
           Num(DefaultNoiseThreshold + 1)),
      Body("arduino_01", Num(DefaultTempThreshold + 1), Str,
           Num(DefaultNoiseThreshold + 1)),
      Body("arduino_01", Num(DefaultTempThreshold + 1),
           Num(DefaultAirQualityThreshold + 1), Str) }

\* The AlertLog create that raises during a request served while a channel is out.
Outages == { "SMS", "EMAIL" }

(***************************************************************************)
(* Actions.                                                                *)
(***************************************************************************)
\* The clock advances.
Tick ==
    /\ now < MaxTime
    /\ now' = now + 1
    /\ UNCHANGED << sensors, readings, configs, exams, controls, alerts, response, reqs, calls >>

\* The tables and the response become what the handler made of them.
Commit(out) ==
    /\ sensors' = out.db.sensors
    /\ readings' = out.db.readings
    /\ configs' = out.db.configs
    /\ alerts' = out.db.alerts
    /\ controls' = out.db.controls
    /\ response' = out.response

\* POST /api/data/ with one of the bodies, served from start to end.
Receive(bodies, failures) ==
    /\ Len(readings) < MaxReadings
    /\ \E body \in bodies, fail \in failures, exam \in ongoing_exam(exams, now) :
        Commit(receive_sensor_data(Tables(sensors, readings, configs, alerts, controls),
                                   exam, body, now, fail))
    /\ UNCHANGED << now, exams, reqs, calls >>

\* a well-formed reading, every AlertLog create succeeding
ReceiveSensorData == Receive(WellFormedBodies, { "none" })

\* a well-formed reading while one channel's create raises
ReceiveDuringOutage == Receive(WellFormedBodies, Outages)

\* a body that is no JSON, or lacks a field, or holds a string for a number
ReceiveMalformed == Receive(MalformedBodies, { "none" })

\* The table becomes what the call made of it, and the call is logged.
Called(device_type, out) ==
    /\ controls' = out.controls
    /\ calls' = Append(calls, [ device_type |-> device_type, at |-> now,
                                before |-> controls, after |-> out.controls,
                                returned |-> out.returned, printed |-> out.printed ])

\* activate_device(device_type) called on its own
ActivateDeviceCall ==
    /\ Len(calls) < MaxCalls
    /\ \E device_type \in DEVICE_TYPES : Called(device_type, activate_device(controls, device_type, now))
    /\ UNCHANGED << now, sensors, readings, configs, exams, alerts, response, reqs >>

\* The alert kinds and the readings the direct calls are made for.
CalledKinds == { "TEMP_HIGH", "NOISE_HIGH" }
CalledReadings == { 1, 2 }

\* The rows the call created are in the table; by the time it has returned the
\* clock has moved on.
Sent(out) ==
    /\ alerts' = out.alerts
    /\ now' = now + 1

\* send_alert(alert_type, env_data, message, config) called on its own
SendAlertCall ==
    /\ now < MaxTime
    /\ \E alert_type \in CalledKinds, env_id \in CalledReadings :
        Sent(send_alert(alerts, alert_type, env_id, [ text |-> "alert", value |-> 0 ],
                        configs[1], "medium", now, "none"))
    /\ UNCHANGED << sensors, readings, configs, exams, controls, response, reqs, calls >>

\* The call is logged with the AlertLog table it read and the table it left.
Checked(alert_type, returned) ==
    calls' = Append(calls, [ alert_type |-> alert_type, at |-> now, before |-> alerts,
                             after |-> alerts', returned |-> returned ])

\* should_send_alert(alert_type, config) called on its own: a query, no write
ShouldSendAlertCall ==
    /\ Len(calls) < MaxCalls
    /\ UNCHANGED << now, sensors, readings, configs, exams, controls, alerts, response, reqs >>
    /\ \E alert_type \in CalledKinds :
        Checked(alert_type, should_send_alert(alerts, alert_type, configs[1], now))

(***************************************************************************)
(* AIProcessor.get_recommendations(insights) of ai_processor.py.  insights *)
(* is the dict of generate_insights: a key that is missing is None here;   *)
(* patterns is the set of its keys whose value is true.                    *)
(***************************************************************************)
Recommendation(priority, category, text, hour) ==
    [ priority |-> priority, category |-> category,
      message |-> [ text |-> text, hour |-> hour ] ]

\* lines 214-236: the three trend rules
trend_recommendations(insights) ==
    IF insights.trends = None THEN << >>
    ELSE (IF insights.trends[1].temperature > TemperatureTrendLimit
          THEN << Recommendation("high", "temperature",
                                 "Significant temperature increase detected.", None) >>
          ELSE << >>)
      \o (IF insights.trends[1].air_quality > AirQualityTrendLimit
          THEN << Recommendation("medium", "air_quality", "Air quality declining.", None) >>
          ELSE << >>)
      \o (IF insights.trends[1].noise > NoiseTrendLimit
          THEN << Recommendation("medium", "noise", "Noise levels increasing.", None) >>
          ELSE << >>)

\* lines 238-244: the rule on the first of the peak hours
peak_recommendations(insights) ==
    IF insights.peak_hours # None /\ insights.peak_hours[1] # << >>
    THEN << Recommendation("low", "noise", "Noise peaks detected at hour {}:00.",
                           Some(insights.peak_hours[1][1].hour)) >>
    ELSE << >>

\* lines 246-254: the rule on temperature_has_spikes
pattern_recommendations(insights) ==
    IF insights.patterns # None /\ "temperature_has_spikes" \in insights.patterns[1]
    THEN << Recommendation("medium", "temperature", "Temperature spikes detected.", None) >>
    ELSE << >>

\* lines 256-263 without the fallback: the list as the rules left it
or_all_nominal_missing(recommendations) == recommendations

\* lines 256-263: the fallback when no rule appended anything
or_all_nominal(recommendations) ==
    IF recommendations = << >>
    THEN << Recommendation("info", "system",
                           "All parameters within optimal ranges.", None) >>
    ELSE recommendations

get_recommendations(insights) ==
    or_all_nominal(trend_recommendations(insights) \o peak_recommendations(insights)
                     \o pattern_recommendations(insights))

\* The insights the recommendations are asked for.
TrendValues(limit) == { 0, limit, limit + 1 }

Trends ==
    { None } \cup
    { Some([ temperature |-> a, air_quality |-> b, noise |-> c ]) :
        a \in TrendValues(TemperatureTrendLimit), b \in TrendValues(AirQualityTrendLimit),
        c \in TrendValues(NoiseTrendLimit) }

PeakHours ==
    { None, Some(<< >>),
      Some(<< [ hour |-> 22, average_value |-> DefaultNoiseThreshold + 1 ],
              [ hour |-> 3, average_value |-> DefaultNoiseThreshold ] >>) }

Patterns ==
    { None } \cup { Some(flags) : flags \in SUBSET { "temperature_has_spikes", "noise_has_spikes" } }

Insights ==
    { [ trends |-> tr, peak_hours |-> ph, patterns |-> pt ] :
        tr \in Trends, ph \in PeakHours, pt \in Patterns }

(***************************************************************************)
(* AIProcessor._find_peak_hours(timestamps, values).  A sample is a        *)
(* timestamp with its value; hour is the hour of the timestamp, None for a *)
(* string that fromisoformat rejects.  Values are whole dB.                *)
(***************************************************************************)
RECURSIVE hours_seen(_)
\* lines 191-200, the keys of the dict hours in insertion order
hours_seen(samples) ==
    IF samples = << >> THEN << >>
    ELSE LET before == hours_seen(SubSeq(samples, 1, Len(samples) - 1))
             last == samples[Len(samples)]
         IN  IF last.hour = None \/ \E i \in 1..Len(before) : before[i] = last.hour[1]
             THEN before
             ELSE Append(before, last.hour[1])

RECURSIVE sum_of(_, _)
\* the sum and the number of the values of hours[h]
sum_of(samples, h) ==
    IF samples = << >> THEN 0
    ELSE sum_of(Tail(samples), h)
           + (IF Head(samples).hour = Some(h) THEN Head(samples).value ELSE 0)

count_of(samples, h) == Cardinality({ i \in 1..Len(samples) : samples[i].hour = Some(h) })

\* np.mean(hours[a]) > np.mean(hours[b]) and ==, on the exact quotients
mean_above(samples, a, b) ==
    sum_of(samples, a) * count_of(samples, b) > sum_of(samples, b) * count_of(samples, a)

mean_equal(samples, a, b) ==
    sum_of(samples, a) * count_of(samples, b) = sum_of(samples, b) * count_of(samples, a)

\* round(avg, 1) in tenths: the nearest tenth, the even one of two equally near
round_tenths(sum, n) ==
    LET q == (10 * sum) \div n
        r == (10 * sum) % n
    IN  IF 2 * r > n \/ (2 * r = n /\ q % 2 = 1) THEN q + 1 ELSE q

\* line 206: sorted(..., reverse=True) is stable, so of two hours with equal means
\* the one inserted first stays first; the place of order[i] in the sorted list
rank(samples, order, i) ==
    1 + Cardinality({ j \in 1..Len(order) :
                        \/ mean_above(samples, order[j], order[i])
                        \/ mean_equal(samples, order[j], order[i]) /\ j < i })

\* lines 203-208 for the hours in insertion order
top_three(samples, order) ==
    [ k \in 1..(IF Len(order) < 3 THEN Len(order) ELSE 3) |->
        LET i == CHOOSE i \in 1..Len(order) : rank(samples, order, i) = k
        IN  [ hour |-> order[i],
              average_value |-> round_tenths(sum_of(samples, order[i]),
                                             count_of(samples, order[i])) ] ]

_find_peak_hours(samples) ==
    IF samples = << >> THEN << >> ELSE top_three(samples, hours_seen(samples))

\* A window that starts at 22:00 and runs past midnight: its hours in time order.
WindowHours == << 22, 23, 3, 4 >>
Decibels == { DefaultStrictNoiseThreshold, DefaultNoiseThreshold + 1 }

Sample(p, v) == [ hour |-> IF p = 0 THEN None ELSE Some(WindowHours[p]), value |-> v ]

\* The windows of at most MaxSamples samples in time order, some timestamps
\* strings that cannot be parsed (position 0).
Windows ==
    UNION { { [ i \in 1..n |-> Sample(ps[i], vs[i]) ] :
                ps \in { f \in [ 1..n -> 0..Len(WindowHours) ] :
                            \A i, j \in 1..n : (i < j /\ f[i] # 0 /\ f[j] # 0) => f[i] <= f[j] },
                vs \in [ 1..n -> Decibels ] } : n \in 0..MaxSamples }

(***************************************************************************)
(* AIProcessor._calculate_trend(values).  Values are whole numbers; the    *)
(* result is counted in hundredths of a percent (45.45 is 4545).           *)
(***************************************************************************)
RECURSIVE total(_)
total(values) == IF values = << >> THEN 0 ELSE Head(values) + total(Tail(values))

\* min(5, len(values))
trend_window(values) == IF Len(values) < TrendWindow THEN Len(values) ELSE TrendWindow

\* round(num / den * 100, 2) in hundredths, den > 0: the nearest hundredth, the
\* even one of two equally near
round_hundredths(num, den) ==
    LET q == (10000 * num) \div den
        r == (10000 * num) % den
    IN  IF 2 * r > den \/ (2 * r = den /\ q % 2 = 1) THEN q + 1 ELSE q

\* line 146 taking the change as a share of end_avg
percentage_change_of_end(start_sum, end_sum) ==
    IF end_sum = 0 THEN 0
    ELSE IF end_sum > 0
    THEN round_hundredths(end_sum - start_sum, end_sum)
    ELSE round_hundredths(start_sum - end_sum, 0 - end_sum)

\* line 146 for the sums of the two slices, which have the same length
percentage_change(start_sum, end_sum) ==
    IF start_sum > 0
    THEN round_hundredths(end_sum - start_sum, start_sum)
    ELSE round_hundredths(start_sum - end_sum, 0 - start_sum)

\* lines 142-146: start_avg over values[:k], end_avg over values[-k:]
trend_of_slices(start_sum, end_sum) ==
    IF start_sum = 0 THEN 0 ELSE percentage_change(start_sum, end_sum)

_calculate_trend(values) ==
    IF Len(values) < 2 THEN 0
    ELSE trend_of_slices(total(SubSeq(values, 1, trend_window(values))),
                         total(SubSeq(values, Len(values) - trend_window(values) + 1,
                                      Len(values))))

\* The metric values of the windows the trend is computed for.
MetricValues == { 0 - 20, 0, 20, 30 }

RisingTemperatures == << 20, 21, 22, 23, 24, 30, 31, 32, 33, 34 >>

Series ==
    { RisingTemperatures } \cup
    UNION { [ 1..n -> MetricValues ] : n \in 0..MaxTrendSamples }

\* The one call of a behaviour, with its argument and what it returned.
Returned(arguments, returned) ==
    calls' = << [ arguments |-> arguments, returned |-> returned ] >>

\* get_recommendations(insights) called on its own
GetRecommendationsCall ==
    /\ calls = << >>
    /\ \E insights \in Insights : Returned(insights, get_recommendations(insights))
    /\ UNCHANGED << now, sensors, readings, configs, exams, controls, alerts, response, reqs >>

\* _find_peak_hours(timestamps, values) called on its own
FindPeakHoursCall ==
    /\ calls = << >>
    /\ \E samples \in Windows : Returned(samples, _find_peak_hours(samples))
    /\ UNCHANGED << now, sensors, readings, configs, exams, controls, alerts, response, reqs >>

\* _calculate_trend(values) called on its own
CalculateTrendCall ==
    /\ calls = << >>
    /\ \E values \in Series : Returned(values, _calculate_trend(values))
    /\ UNCHANGED << now, sensors, readings, configs, exams, controls, alerts, response, reqs >>

(***************************************************************************)
(* The handler as the threads of the server run it: one action per         *)
(* database statement of the first access to the configuration, so that    *)
(* the statements of two requests interleave.                              *)
(***************************************************************************)
\* The tables become what lines 77-99 made of them; the thread holds env_data.
Ingested(r, got) ==
    /\ sensors' = got.db.sensors
    /\ readings' = got.db.readings
    /\ reqs' = [ reqs EXCEPT ![r] = [ pc |-> "first", env |-> got.env, config |-> None ] ]

\* lines 77-99 of request r: the body is read and the reading created
ConcIngest(r) ==
    /\ reqs[r].pc = "idle"
    /\ Len(readings) < MaxReadings
    /\ \E body \in WellFormedBodies :
        Ingested(r, ingest(Tables(sensors, readings, configs, alerts, controls), body, now))
    /\ UNCHANGED << now, configs, exams, controls, alerts, response, calls >>

\* line 102: config = SystemConfiguration.objects.first()
ConcFirst(r) ==
    /\ reqs[r].pc = "first"
    /\ reqs' = [ reqs EXCEPT ![r] =
                    IF configs = << >>
                    THEN [ @ EXCEPT !.pc = "exists" ]
                    ELSE [ @ EXCEPT !.pc = "finish", !.config = Some(configs[1]) ] ]
    /\ UNCHANGED << now, sensors, readings, configs, exams, controls, alerts, response,
                    calls >>

\* line 104 -> SystemConfiguration.save, line 150: the exists() query of the guard;
\* line 151 raises ValueError, which line 142 answers with status 500
ConcExists(r) ==
    /\ reqs[r].pc = "exists"
    /\ IF configs # << >>
       THEN /\ reqs' = [ reqs EXCEPT ![r] = IdleFrame ]
            /\ response' = ErrorResponse(500, "Only one SystemConfiguration instance allowed")
       ELSE /\ reqs' = [ reqs EXCEPT ![r].pc = "insert" ]
            /\ UNCHANGED response
    /\ UNCHANGED << now, sensors, readings, configs, exams, controls, alerts, calls >>

\* SystemConfiguration.save, line 152: super().save() inserts the row
ConcInsert(r) ==
    /\ reqs[r].pc = "insert"
    /\ configs' = Append(configs, DefaultConfig)
    /\ reqs' = [ reqs EXCEPT ![r].pc = "finish", ![r].config = Some(DefaultConfig) ]
    /\ UNCHANGED << now, sensors, readings, exams, controls, alerts, response, calls >>

\* lines 106-138 of request r
ConcFinish(r) ==
    /\ reqs[r].pc = "finish"
    /\ \E exam \in ongoing_exam(exams, now) :
        Commit(finish_request(Tables(sensors, readings, configs, alerts, controls),
                              exam, reqs[r].env[1], reqs[r].config[1], now, "none"))
    /\ reqs' = [ reqs EXCEPT ![r] = IdleFrame ]
    /\ UNCHANGED << now, exams, calls >>

(***************************************************************************)
(* run_automation as the threads of the server run it: one action per rule *)
(* up to its cooldown query, one per send_alert call, one for the final    *)
(* env_data.save(), so that the statements of two requests interleave.     *)
(* Every statement is its own database transaction (autocommit).           *)
(***************************************************************************)
RULES == << "temperature", "air_quality", "noise", "anomaly" >>

\* the if conditions of lines 172, 184, 196 and 205
rule_fires(rule, env, noise_threshold, config) ==
    CASE rule = "temperature" ->
            env.temperature > config.temp_threshold /\ config.auto_ac_enabled
      [] rule = "air_quality" ->
            env.air_quality > config.air_quality_threshold /\ config.auto_ventilation_enabled
      [] rule = "noise" -> env.noise_level > noise_threshold
      [] OTHER -> env.is_anomaly /\ config.ai_analysis_enabled

\* lines 173-175 and 185-187: the device switched on and the flags set, for the
\* two rules that actuate
rule_controls(rule, ctl, t) ==
    CASE rule = "temperature" -> activate_device(ctl, "AC", t).controls
      [] rule = "air_quality" -> activate_device(ctl, "FAN", t).controls
      [] OTHER -> ctl

rule_env(rule, env) ==
    CASE rule = "temperature" -> [ env EXCEPT !.ac_activated = TRUE ]
      [] rule = "air_quality" -> [ env EXCEPT !.ventilation_activated = TRUE ]
      [] OTHER -> env

rule_results(rule, results) ==
    CASE rule = "temperature" -> [ results EXCEPT !.ac_activated = TRUE ]
      [] rule = "air_quality" -> [ results EXCEPT !.ventilation_activated = TRUE ]
      [] OTHER -> results

\* the arguments of the send_alert call of each rule
rule_alert_type(rule) ==
    CASE rule = "temperature" -> "TEMP_HIGH" [] rule = "air_quality" -> "AIR_POOR"
      [] rule = "noise" -> "NOISE_HIGH" [] OTHER -> "ANOMALY"

rule_severity(rule) == IF rule = "noise" THEN "high" ELSE "medium"

rule_message(rule, env) ==
    CASE rule = "temperature" ->
            [ text |-> "High temperature: {}°C. AC activated.", value |-> env.temperature ]
      [] rule = "air_quality" ->
            [ text |-> "Poor air quality: {} AQI. Ventilation activated.",
              value |-> env.air_quality ]
      [] rule = "noise" ->
            [ text |-> "High noise: {} dB detected!", value |-> env.noise_level ]
      [] OTHER -> [ text |-> "Anomaly detected: {}", anomaly_type |-> env.anomaly_type ]

\* The thread goes on to the next rule, or to env_data.save() after the last.
after_rule(frame) ==
    IF frame.rule = Len(RULES)
    THEN [ frame EXCEPT !.pc = "save" ]
    ELSE [ frame EXCEPT !.pc = "rule", !.rule = @ + 1 ]

\* The thread as it enters run_automation with the reading it created.
EnterAutomation(env_data, config, exam) ==
    [ pc |-> "rule", rule |-> 1, env |-> analyse(env_data, config), config |-> config,
      results |-> EmptyResults, noise_threshold |-> noise_threshold_of(exam, config) ]

\* The bodies of the requests served concurrently.
ConcurrentBodies ==
    { b \in WellFormedBodies :
        /\ b.air_quality = Num(DefaultAirQualityThreshold)
        /\ b.noise_level # Num(DefaultStrictNoiseThreshold + 5) }

Entered(r, got, frame) ==
    /\ sensors' = got.db.sensors
    /\ readings' = [ got.db.readings EXCEPT ![frame.env.id] = frame.env ]
    /\ reqs' = [ reqs EXCEPT ![r] = frame ]

\* lines 77-125 and 159-169 of request r: the reading is created, classified and
\* saved, and run_automation looks up the exam window
StepStart(r) ==
    /\ reqs[r].pc = "idle"
    /\ Len(readings) < MaxReadings
    /\ configs # << >>
    /\ \E body \in ConcurrentBodies, exam \in ongoing_exam(exams, now) :
        Entered(r, ingest(Tables(sensors, readings, configs, alerts, controls), body, now),
                EnterAutomation(NewReading(Len(readings) + 1, device_id_of(body), body, now),
                                configs[1], exam))
    /\ UNCHANGED << now, configs, exams, controls, alerts, response, calls >>

\* The rule of the frame up to and including its cooldown query: the thread goes
\* on to send_alert when the query found no recent row.
RuleDone(r, frame, rule) ==
    IF ~ rule_fires(rule, frame.env, frame.noise_threshold, frame.config)
    THEN /\ reqs' = [ reqs EXCEPT ![r] = after_rule(frame) ]
         /\ UNCHANGED controls
    ELSE /\ controls' = rule_controls(rule, controls, now)
         /\ reqs' = [ reqs EXCEPT ![r] =
                IF /\ frame.config.alerts_enabled
                   /\ should_send_alert(alerts, rule_alert_type(rule), frame.config, now)
                THEN [ frame EXCEPT !.pc = "send", !.env = rule_env(rule, @),
                                    !.results = rule_results(rule, @) ]
                ELSE after_rule([ frame EXCEPT !.env = rule_env(rule, @),
                                               !.results = rule_results(rule, @) ]) ]

StepRule(r) ==
    /\ reqs[r].pc = "rule"
    /\ RuleDone(r, reqs[r], RULES[reqs[r].rule])
    /\ UNCHANGED << now, sensors, readings, configs, exams, alerts, response, calls >>

\* the send_alert call made only if the cooldown query, run again, still finds nothing
AlertSentAfterSecondQuery(r, frame, rule) ==
    IF should_send_alert(alerts, rule_alert_type(rule), frame.config, now)
    THEN /\ alerts' = send_alert(alerts, rule_alert_type(rule), frame.env.id,
                                 rule_message(rule, frame.env), frame.config,
                                 rule_severity(rule), now, "none").alerts
         /\ reqs' = [ reqs EXCEPT ![r] =
                 after_rule([ frame EXCEPT !.results.alerts_sent = Append(@, rule),
                                           !.env.alert_sent = (@ \/ rule = "noise") ]) ]
    ELSE /\ alerts' = alerts
         /\ reqs' = [ reqs EXCEPT ![r] = after_rule(frame) ]

\* The send_alert call of the rule and the statements that follow it in the branch.
AlertSent(r, frame, rule) ==
    /\ alerts' = send_alert(alerts, rule_alert_type(rule), frame.env.id,
                            rule_message(rule, frame.env), frame.config,
                            rule_severity(rule), now, "none").alerts
    /\ reqs' = [ reqs EXCEPT ![r] =
            after_rule([ frame EXCEPT !.results.alerts_sent = Append(@, rule),
                                      !.env.alert_sent = (@ \/ rule = "noise") ]) ]

StepSend(r) ==
    /\ reqs[r].pc = "send"
    /\ AlertSent(r, reqs[r], RULES[reqs[r].rule])
    /\ UNCHANGED << now, sensors, readings, configs, exams, controls, response, calls >>

\* lines 212-213 and 127-138: env_data.save() and the response; the request is over
StepSave(r) ==
    /\ reqs[r].pc = "save"
    /\ readings' = [ readings EXCEPT ![reqs[r].env.id] = reqs[r].env ]
    /\ response' = SuccessResponse(reqs[r].env, reqs[r].config, reqs[r].results,
                        Cardinality({ i \in 1..Len(readings) :
                                        readings[i].device = reqs[r].env.device }))
    /\ reqs' = [ reqs EXCEPT ![r] = [ IdleFrame EXCEPT !.pc = "done" ] ]
    /\ UNCHANGED << now, sensors, configs, exams, controls, alerts, calls >>

(***************************************************************************)
(* activate_device as the threads of the server run it: the query, then    *)
(* for each row fetched the two assignments and device.save(), each its    *)
(* own step.  calls logs every call with the stamps it took.               *)
(***************************************************************************)
\* The categories the concurrent calls are made for.
ActuatedTypes == { "AC", "FAN" }

\* The rows of a type in an order the database may return them in (the model
\* declares no ordering), each fetched into an object of the thread.
Fetched(ctl, device_type) ==
    { devices \in [ 1..Cardinality(OfTypeIn(ctl, device_type)) -> OfTypeIn(ctl, device_type) ] :
        \A i, j \in DOMAIN devices : i # j => devices[i] # devices[j] }

\* line 217: devices = ControlDevice.objects.filter(device_type=device_type),
\* evaluated when the for loop starts
ActStart(r) ==
    /\ reqs[r].pc = "idle"
    /\ Len(calls) < MaxCalls
    /\ \E device_type \in ActuatedTypes : \E devices \in Fetched(controls, device_type) :
        /\ reqs' = [ reqs EXCEPT ![r] =
                [ pc |-> IF devices = << >> THEN "print" ELSE "stamp",
                  call |-> Len(calls) + 1,
                  devices |-> [ i \in DOMAIN devices |->
                                  [ name |-> devices[i], row |-> controls[devices[i]] ] ],
                  i |-> 1 ] ]
        /\ calls' = Append(calls, [ device_type |-> device_type, at |-> now,
                                    stamps |-> [ d \in {} |-> 0 ] ])
    /\ UNCHANGED << now, sensors, readings, configs, exams, controls, alerts, response >>

\* lines 220-221: device.is_active = True; device.last_activated = timezone.now()
ActStamp(r) ==
    /\ reqs[r].pc = "stamp"
    /\ reqs' = [ reqs EXCEPT ![r].pc = "write",
                             ![r].devices[reqs[r].i].row.is_active = TRUE,
                             ![r].devices[reqs[r].i].row.last_activated = Some(now) ]
    /\ calls' = [ calls EXCEPT ![reqs[r].call].stamps =
                    [ d \in DOMAIN @ \cup { reqs[r].devices[reqs[r].i].name } |->
                        IF d = reqs[r].devices[reqs[r].i].name THEN now ELSE @[d] ] ]
    /\ UNCHANGED << now, sensors, readings, configs, exams, controls, alerts, response >>

\* line 222: device.save() writes every field of the object over the row
ActWrite(r) ==
    /\ reqs[r].pc = "write"
    /\ controls' = [ controls EXCEPT ![reqs[r].devices[reqs[r].i].name] =
                                        reqs[r].devices[reqs[r].i].row ]
    /\ reqs' = [ reqs EXCEPT ![r].i = @ + 1,
                             ![r].pc = IF reqs[r].i = Len(reqs[r].devices)
                                       THEN "print" ELSE "stamp" ]
    /\ UNCHANGED << now, sensors, readings, configs, exams, alerts, response, calls >>

\* line 224: the print, after which the call returns
ActPrint(r) ==
    /\ reqs[r].pc = "print"
    /\ reqs' = [ reqs EXCEPT ![r] = IdleFrame ]
    /\ UNCHANGED << now, sensors, readings, configs, exams, controls, alerts, response,
                    calls >>

(***************************************************************************)
(* Specifications.                                                         *)
(***************************************************************************)
\* Readings served one at a time, no fault.
Next == Tick \/ ReceiveSensorData

Spec == Init /\ [][Next]_vars

\* The provisioned deployment with every flag set and no exam scheduled, the
\* configuration row saved or not yet created.
InitAllEnabled ==
    /\ Init
    /\ configs \in { << >>, << AllEnabled >> }
    /\ exams = {}
    /\ controls = Provisioned

\* Readings served one at a time, some of them while a channel is out.
InitOutage == InitAllEnabled /\ configs = << AllEnabled >>

NextOutage == Tick \/ ReceiveSensorData \/ ReceiveDuringOutage

SpecOutage == InitOutage /\ [][NextOutage]_vars

\* Readings served one at a time, some of the bodies malformed.
NextIngest == Tick \/ ReceiveSensorData \/ ReceiveMalformed

SpecIngest == InitAllEnabled /\ [][NextIngest]_vars

\* The actuator called on its own, on the provisioned and on the empty table.
InitUnit == Init /\ configs = << AllEnabled >> /\ exams = {}

NextUnit == Tick \/ ActivateDeviceCall

SpecUnit == InitUnit /\ [][NextUnit]_vars

\* The cooldown check and the dispatcher called on their own.
InitCooldown == InitAllEnabled /\ configs = << AllEnabled >>

NextCooldown == Tick \/ SendAlertCall \/ ShouldSendAlertCall

SpecCooldown == InitCooldown /\ [][NextCooldown]_vars

\* The recommendation generator called on its own.
NextRecommend == GetRecommendationsCall

SpecRecommend == InitCooldown /\ [][NextRecommend]_vars

\* The peak-hour ranking called on its own.
NextPeak == FindPeakHoursCall

SpecPeak == InitCooldown /\ [][NextPeak]_vars

\* The trend called on its own.
NextTrend == CalculateTrendCall

SpecTrend == InitCooldown /\ [][NextTrend]_vars

\* Readings served one at a time while exam windows overlap.
InitExams ==
    /\ now = 0
    /\ sensors = << >>
    /\ readings = << >>
    /\ alerts = << >>
    /\ configs = << AllEnabled >>
    /\ exams \in { { EarlyExam, LateExam }, { EarlyExam, TwinExam } }
    /\ controls = Provisioned
    /\ response = NoResponse
    /\ reqs = [ r \in Reqs |-> IdleFrame ]
    /\ calls = << >>

NextExams == Tick \/ ReceiveSensorData

SpecExams == InitExams /\ [][NextExams]_vars

\* run_automation of concurrent requests, statement by statement.
NextSteps ==
    \/ Tick
    \/ \E r \in Reqs : StepStart(r)
    \/ \E r \in Reqs : StepRule(r)
    \/ \E r \in Reqs : StepSend(r)
    \/ \E r \in Reqs : StepSave(r)

SpecSteps == InitCooldown /\ [][NextSteps]_vars

\* activate_device called by concurrent requests, statement by statement.
NextActuate ==
    \/ Tick
    \/ \E r \in Reqs : ActStart(r)
    \/ \E r \in Reqs : ActStamp(r)
    \/ \E r \in Reqs : ActWrite(r)
    \/ \E r \in Reqs : ActPrint(r)

SpecActuate == InitCooldown /\ [][NextActuate]_vars

\* Requests served concurrently by the threads of the server.
NextConc ==
    \/ Tick
    \/ \E r \in Reqs : ConcIngest(r)
    \/ \E r \in Reqs : ConcFirst(r)
    \/ \E r \in Reqs : ConcExists(r)
    \/ \E r \in Reqs : ConcInsert(r)
    \/ \E r \in Reqs : ConcFinish(r)

SpecConc == InitAllEnabled /\ [][NextConc]_vars

(***************************************************************************)
(* The claims.                                                             *)
(***************************************************************************)
\* The configuration row the served readings were evaluated against.
Cfg == configs[1]

\* The AlertLog rows of one kind raised for reading j.
RowsOf(j, kind) ==
    { i \in 1..Len(alerts) : alerts[i].data = j /\ alerts[i].alert_type = kind }

Raised(j, kind) == RowsOf(j, kind) # {}

\* No row of the kind, raised for an earlier reading, is within the cooldown of reading j.
CooldownFree(j, kind) ==
    ~ \E i \in 1..Len(alerts) :
        /\ alerts[i].alert_type = kind
        /\ alerts[i].data < j
        /\ alerts[i].created_at >= readings[j].timestamp - Cfg.alert_cooldown_minutes

\* The exam windows ongoing at time t, and the noise thresholds they allow.
OngoingAt(t) ==
    { e \in exams : e.start_time <= t /\ t <= e.end_time /\ e.is_active }

EffectiveNoise(t) ==
    IF OngoingAt(t) = {} THEN { Cfg.noise_threshold }
    ELSE { e.strict_noise_threshold : e \in OngoingAt(t) }

\* Reading j triggers the temperature rule with alerts enabled.
TempTriggering(j) ==
    /\ readings[j].temperature > Cfg.temp_threshold
    /\ Cfg.auto_ac_enabled
    /\ Cfg.alerts_enabled

\* Two TEMP_HIGH-triggering readings served one after the other, the first one alerting.
C1_Pairs ==
    { j \in 1..(Len(readings) - 1) :
        TempTriggering(j) /\ TempTriggering(j + 1) /\ Raised(j, "TEMP_HIGH") }

C1_Delta(j) == readings[j + 1].timestamp - readings[j].timestamp

\* C1 as stated: of two TEMP_HIGH-triggering readings served one after the other,
\* Delta t apart, the second one's alert is suppressed iff Delta t < cooldown_minutes,
\* so at Delta t = cooldown_minutes it is raised.
C1_SuppressedIffBelowCooldown ==
    \A j \in C1_Pairs :
        ~ Raised(j + 1, "TEMP_HIGH") <=> C1_Delta(j) < Cfg.alert_cooldown_minutes

\* C1 amended: the second reading's TEMP_HIGH alert is suppressed iff
\* Delta t <= cooldown_minutes; it is raised only when Delta t > cooldown_minutes.
C1_SuppressedIffWithinCooldown ==
    \A j \in C1_Pairs :
        ~ Raised(j + 1, "TEMP_HIGH") <=> C1_Delta(j) <= Cfg.alert_cooldown_minutes

\* Two such readings exactly cooldown_minutes apart, the second one suppressed.
C1_Witness ==
    \E j \in C1_Pairs :
        /\ C1_Delta(j) = Cfg.alert_cooldown_minutes
        /\ ~ Raised(j + 1, "TEMP_HIGH")

\* C2: a reading raises NOISE_HIGH iff its noise exceeds the strict threshold of an
\* ongoing exam window (start <= now <= end, active) when there is one and the
\* configured noise_threshold otherwise, alerts being enabled and the cooldown free.
C2_ExamOverride ==
    \A j \in 1..Len(readings) :
        Raised(j, "NOISE_HIGH") <=>
            /\ \E thr \in EffectiveNoise(readings[j].timestamp) :
                    readings[j].noise_level > thr
            /\ Cfg.alerts_enabled
            /\ CooldownFree(j, "NOISE_HIGH")

\* Noise 55 under a configured threshold of 60: no NOISE_HIGH before the window
\* of strict threshold 50 starts, NOISE_HIGH while it is ongoing.
C2_Witness ==
    \E i, j \in 1..Len(readings) :
        /\ Cfg.noise_threshold = DefaultNoiseThreshold
        /\ Cfg.alerts_enabled
        /\ readings[i].noise_level = DefaultStrictNoiseThreshold + 5
        /\ readings[j].noise_level = DefaultStrictNoiseThreshold + 5
        /\ OngoingAt(readings[i].timestamp) = {}
        /\ ~ Raised(i, "NOISE_HIGH")
        /\ \E e \in OngoingAt(readings[j].timestamp) :
                e.strict_noise_threshold = DefaultStrictNoiseThreshold
        /\ Raised(j, "NOISE_HIGH")

\* The rows of one kind a step adds to AlertLog.
NewRows(kind) ==
    { i \in (Len(alerts) + 1)..Len(alerts') : alerts'[i].alert_type = kind }

\* The ControlDevice rows of one type are left as they were by a step.
Untouched(device_type) ==
    \A d \in DOMAIN controls :
        controls[d].device_type = device_type => controls'[d] = controls[d]

\* The step that serves a reading, for the reading r it stores.
C3_Step ==
    Len(readings') = Len(readings) + 1 =>
        LET r == readings'[Len(readings')]
            cfg == configs'[1]
        IN  /\ r.temperature <= cfg.temp_threshold =>
                /\ ~ r.ac_activated
                /\ ~ response'.automation[1].ac_activated
                /\ Untouched("AC")
                /\ NewRows("TEMP_HIGH") = {}
            /\ r.air_quality <= cfg.air_quality_threshold =>
                /\ ~ r.ventilation_activated
                /\ ~ response'.automation[1].ventilation_activated
                /\ Untouched("FAN")
                /\ NewRows("AIR_POOR") = {}
            /\ (\A thr \in EffectiveNoise(now)' : r.noise_level <= thr) =>
                /\ ~ r.alert_sent
                /\ NewRows("NOISE_HIGH") = {}

\* C3: a metric at or below its effective threshold causes neither actuation nor
\* an alert of its kind: no flag on the reading, no device of the category
\* touched, no TEMP_HIGH / AIR_POOR / NOISE_HIGH row created.
C3_NoActionAtOrBelowThreshold == [][C3_Step]_vars

\* A reading with every metric exactly at its effective threshold (the noise at the
\* strict threshold of the ongoing exam) was served, after a reading above them
\* had switched the devices on.
C3_Witness ==
    \E i, j \in 1..Len(readings) :
        /\ i < j
        /\ readings[i].ac_activated /\ readings[i].ventilation_activated
        /\ readings[j].temperature = Cfg.temp_threshold
        /\ readings[j].air_quality = Cfg.air_quality_threshold
        /\ OngoingAt(readings[j].timestamp) # {}
        /\ \A thr \in EffectiveNoise(readings[j].timestamp) : readings[j].noise_level = thr
        /\ ~ readings[j].ac_activated /\ ~ readings[j].ventilation_activated
        /\ \A kind \in ALERT_TYPES \ { "ANOMALY" } : ~ Raised(j, kind)

\* The set of the channels of the rows raised for reading j and a kind.
ChannelsOf(j, kind) == { alerts[i].channel : i \in RowsOf(j, kind) }

\* C4 as stated: one dispatch creates exactly 3 delivery records, one per channel
\* SMS, EMAIL and SCREEN.
C4_ThreeRecordsPerDispatch ==
    \A j \in 1..Len(readings), kind \in ALERT_TYPES :
        Raised(j, kind) =>
            /\ Cardinality(RowsOf(j, kind)) = 3
            /\ ChannelsOf(j, kind) = { "SMS", "EMAIL", "SCREEN" }

\* C4 amended: one dispatch with no channel failure creates exactly 2 rows, SMS to
\* guard_phone and EMAIL to admin_email, with the same kind, message and severity;
\* each row has its own id and what they share is the reading they refer to.
C4_TwoRecordsPerDispatch ==
    \A j \in 1..Len(readings), kind \in ALERT_TYPES :
        Raised(j, kind) =>
            \E a, b \in RowsOf(j, kind) :
                /\ RowsOf(j, kind) = { a, b }
                /\ alerts[a].id # alerts[b].id
                /\ alerts[a].channel = "SMS" /\ alerts[a].recipient = Cfg.guard_phone
                /\ alerts[b].channel = "EMAIL" /\ alerts[b].recipient = Cfg.admin_email
                /\ alerts[a].message = alerts[b].message
                /\ alerts[a].severity = alerts[b].severity
                /\ alerts[a].data = j /\ alerts[b].data = j

\* A reading for which two kinds were dispatched, two rows each.
C4_Witness ==
    \E j \in 1..Len(readings) :
        /\ Cardinality(RowsOf(j, "TEMP_HIGH")) = 2
        /\ Cardinality(RowsOf(j, "NOISE_HIGH")) = 2

\* The alert kind behind a label of results["alerts_sent"].
KindOf(label) ==
    CASE label = "temperature" -> "TEMP_HIGH"
      [] label = "air_quality" -> "AIR_POOR"
      [] label = "noise" -> "NOISE_HIGH"
      [] OTHER -> "ANOMALY"

\* The labels the request answered last reports as sent.
SentLabels ==
    IF response.status = "success"
    THEN { response.automation[1].alerts_sent[i] :
             i \in 1..Len(response.automation[1].alerts_sent) }
    ELSE {}

\* C5: a failure on one channel does not prevent the records of the other channels,
\* and the failed channel still leaves a record: every dispatch of the request
\* answered last has its SMS row and its EMAIL row.
C5_ChannelsIndependent ==
    \A label \in SentLabels :
        /\ "SMS" \in ChannelsOf(response.reading_id[1], KindOf(label))
        /\ "EMAIL" \in ChannelsOf(response.reading_id[1], KindOf(label))

\* No row of the kind within the cooldown, as the tables stand before a step.
CooldownFreeNow(kind) ==
    ~ \E i \in 1..Len(alerts) :
        /\ alerts[i].alert_type = kind
        /\ alerts[i].created_at >= now - configs'[1].alert_cooldown_minutes

\* The devices of a type are on and stamped with the time of the step.
Actuated(device_type) ==
    \A d \in DOMAIN controls' :
        controls'[d].device_type = device_type =>
            controls'[d].is_active /\ controls'[d].last_activated = Some(now)

\* The step that serves a reading, whether or not a channel fails during it.
C6_Step ==
    Len(readings') = Len(readings) + 1 =>
        LET id == Len(readings')
            r == readings'[id]
            cfg == configs'[1]
            res == response'.automation[1]
            sent == { res.alerts_sent[i] : i \in 1..Len(res.alerts_sent) }
            hot == r.temperature > cfg.temp_threshold /\ cfg.auto_ac_enabled
            poor == r.air_quality > cfg.air_quality_threshold /\ cfg.auto_ventilation_enabled
            loud == \E thr \in EffectiveNoise(now)' : r.noise_level > thr
        IN  /\ response'.status = "success"
            /\ response'.reading_id = Some(id)
            /\ r.ac_activated = hot /\ res.ac_activated = hot
            /\ hot => Actuated("AC")
            /\ r.ventilation_activated = poor /\ res.ventilation_activated = poor
            /\ poor => Actuated("FAN")
            /\ "temperature" \in sent <=>
                    hot /\ cfg.alerts_enabled /\ CooldownFreeNow("TEMP_HIGH")
            /\ "air_quality" \in sent <=>
                    poor /\ cfg.alerts_enabled /\ CooldownFreeNow("AIR_POOR")
            /\ r.alert_sent = (loud /\ cfg.alerts_enabled /\ CooldownFreeNow("NOISE_HIGH"))
            /\ "noise" \in sent <=> r.alert_sent
            /\ "anomaly" \in sent <=>
                    /\ r.is_anomaly /\ cfg.ai_analysis_enabled /\ cfg.alerts_enabled
                    /\ CooldownFreeNow("ANOMALY")

\* C6: a channel failure inside send_alert is not propagated: run_automation still
\* evaluates every rule of the reading, the annotations are saved, and
\* receive_sensor_data answers success.
C6_FailureNotPropagated == [][C6_Step]_vars

\* The SMS create failed on the first dispatch of a reading (no TEMP_HIGH row exists
\* for it), and the air-quality and noise rules were still evaluated and saved.
C6_Witness ==
    /\ response.status = "success"
    /\ "temperature" \in SentLabels
    /\ ~ Raised(response.reading_id[1], "TEMP_HIGH")
    /\ "air_quality" \in SentLabels
    /\ readings[response.reading_id[1]].ac_activated
    /\ readings[response.reading_id[1]].ventilation_activated
    /\ readings[response.reading_id[1]].alert_sent
    /\ controls["fan_1"].is_active

\* C7: at most one SystemConfiguration row exists in every reachable state, also
\* when two requests perform the first access concurrently.
C7_AtMostOneConfig == Len(configs) <= 1

\* The bodies with a missing or a non-numeric temperature, air_quality or noise_level.
FieldMalformedBodies ==
    { b \in MalformedBodies :
        /\ b.json
        /\ \E f \in { b.temperature, b.air_quality, b.noise_level } : f.k # "num" }

\* The step is the handler serving this body.
ServedWith(body) ==
    \E exam \in ongoing_exam(exams, now) :
        /\ Commit(receive_sensor_data(Tables(sensors, readings, configs, alerts, controls),
                                      exam, body, now, "none"))
        /\ now' = now

C8_Step ==
    \A body \in FieldMalformedBodies :
        (Len(readings) < MaxReadings /\ ServedWith(body)) =>
            /\ response'.status = "error"
            /\ UNCHANGED << sensors, readings, configs, controls, alerts >>

\* C8: a request whose temperature, air_quality or noise_level is missing or not
\* numeric is rejected with an error: no reading is created, no device actuated, no
\* alert created, and the sensor registry and the configuration are left unchanged.
C8_MalformedRejected == [][C8_Step]_vars

\* The devices of a type in a ControlDevice table.
OfType(ctl, device_type) == { d \in DOMAIN ctl : ctl[d].device_type = device_type }

\* C9 as stated: activate(category) returns the number of devices it affected.
C9_ReturnsCount ==
    \A i \in 1..Len(calls) :
        calls[i].returned = Some(Cardinality(OfType(calls[i].before, calls[i].device_type)))

\* C9 amended: activate_device(category) sets is_active and last_activated = the
\* call time on every ControlDevice of the category and leaves every other row as it
\* was; it returns nothing (None) and only prints the number of devices; for a
\* category with no device it raises no error and changes nothing.
C9_ActivatesAndReturnsNone ==
    \A i \in 1..Len(calls) :
        LET c == calls[i]
            mine == OfType(c.before, c.device_type)
        IN  /\ DOMAIN c.after = DOMAIN c.before
            /\ \A d \in mine :
                    c.after[d] = [ device_type |-> c.device_type, is_active |-> TRUE,
                                   last_activated |-> Some(c.at) ]
            /\ \A d \in DOMAIN c.before \ mine : c.after[d] = c.before[d]
            /\ c.returned = None
            /\ c.printed = Cardinality(mine)
            /\ mine = {} => c.after = c.before

\* A call for the category ALARM, which has no device, and a later call for AC,
\* which has two.
C9_Witness ==
    \E i, j \in 1..Len(calls) :
        /\ calls[i].device_type = "ALARM" /\ calls[i].printed = 0
        /\ calls[i].before # << >>
        /\ calls[j].device_type = "AC" /\ calls[j].printed = 2
        /\ calls[j].at > 0

\* C10: activate(AC) called twice in a row is idempotent on the device state: after
\* the second call the devices and their active flags are those after the first
\* (all of the category active), each last_activated of the category holds the
\* later call time, and the devices of the other categories are changed by neither.
C10_ActivateIdempotent ==
    \A i \in 1..(Len(calls) - 1) :
        calls[i].device_type = calls[i + 1].device_type =>
            LET first == calls[i]
                second == calls[i + 1]
                mine == OfType(first.before, first.device_type)
            IN  /\ second.before = first.after
                /\ DOMAIN second.after = DOMAIN first.after
                /\ \A d \in DOMAIN first.after :
                    /\ second.after[d].device_type = first.after[d].device_type
                    /\ second.after[d].is_active = first.after[d].is_active
                /\ \A d \in mine :
                    /\ first.after[d].is_active
                    /\ second.after[d].last_activated = Some(second.at)
                /\ \A d \in DOMAIN first.before \ mine :
                    /\ first.after[d] = first.before[d]
                    /\ second.after[d] = first.before[d]

\* activate_device('AC') called twice in a row, the second call later than the
\* first, on a table that holds AC devices and a device of another category.
C10_Witness ==
    \E i \in 1..(Len(calls) - 1) :
        /\ calls[i].device_type = "AC" /\ calls[i + 1].device_type = "AC"
        /\ calls[i + 1].at > calls[i].at
        /\ OfType(calls[i].before, "AC") # {}
        /\ OfType(calls[i].before, "FAN") # {}

\* The rows of a table of one kind created within [t - cooldown_minutes, t).
WithinCooldown(al, kind, t) ==
    { i \in 1..Len(al) :
        /\ al[i].alert_type = kind
        /\ t - Cfg.alert_cooldown_minutes <= al[i].created_at
        /\ al[i].created_at < t }

Nominal(insights) ==
    /\ insights.trends = Some([ temperature |-> 0, air_quality |-> 0, noise |-> 0 ])
    /\ insights.patterns \in { None, Some({}) }

Priorities(recommendations) ==
    [ i \in 1..Len(recommendations) |-> recommendations[i].priority ]

\* C12 as stated: with every trend at 0 and no spike flag the result is exactly one
\* recommendation of priority info, whatever the peak hours hold; the result is
\* never empty.
C12_NominalYieldsInfo ==
    \A i \in 1..Len(calls) :
        /\ Nominal(calls[i].arguments) => Priorities(calls[i].returned) = << "info" >>
        /\ calls[i].returned # << >>

\* C12 amended: with every trend at 0 and no spike flag the result is exactly one
\* recommendation: of priority info when peak_hours is missing or empty, and the
\* low-priority noise recommendation naming the first peak hour when it is not;
\* the result is never empty.
C12_NominalYieldsInfoOrPeak ==
    \A i \in 1..Len(calls) :
        LET c == calls[i]
        IN  /\ Nominal(c.arguments) =>
                IF c.arguments.peak_hours \in { None, Some(<< >>) }
                THEN /\ Priorities(c.returned) = << "info" >>
                     /\ c.returned[1].category = "system"
                ELSE /\ Priorities(c.returned) = << "low" >>
                     /\ c.returned[1].category = "noise"
                     /\ c.returned[1].message.hour =
                            Some(c.arguments.peak_hours[1][1].hour)
            /\ c.returned # << >>

\* The call with every trend at 0, no spike flag and two peak hours.
C12_Witness ==
    \E i \in 1..Len(calls) :
        /\ Nominal(calls[i].arguments)
        /\ calls[i].arguments.peak_hours # None
        /\ Len(calls[i].arguments.peak_hours[1]) = 2
        /\ Priorities(calls[i].returned) = << "low" >>

\* C13: _find_peak_hours returns at most 3 hours ordered by mean noise descending,
\* and of two hours with identical mean noise the numerically earlier one is ranked
\* first, for every time-ordered window, also one in which the later hour of day
\* comes first (22:00 before 03:00).
C13_PeakRankingEarliestHourFirst ==
    \A c \in 1..Len(calls) :
        LET samples == calls[c].arguments
            peaks == calls[c].returned
        IN  /\ Len(peaks) <= 3
            /\ \A i \in 1..(Len(peaks) - 1) :
                \/ mean_above(samples, peaks[i].hour, peaks[i + 1].hour)
                \/ /\ mean_equal(samples, peaks[i].hour, peaks[i + 1].hour)
                   /\ peaks[i].hour < peaks[i + 1].hour

\* The sums of the first and of the last min(5, n) of n samples.
FirstSum(values) ==
    total([ i \in 1..trend_window(values) |-> values[i] ])

LastSum(values) ==
    total([ i \in 1..trend_window(values) |-> values[Len(values) - trend_window(values) + i] ])

Abs(x) == IF x < 0 THEN 0 - x ELSE x

\* C14: the trend over n samples is ((mean of the last min(5,n)) - (mean of the first
\* min(5,n))) / (mean of the first min(5,n)) * 100 rounded to 2 decimals, i.e. the
\* hundredth nearest to that quotient; it is 0 when n < 2 or the first-samples mean
\* is 0; for 20,21,22,23,24,30,31,32,33,34 it is 45.45.
C14_TrendIsPercentageChange ==
    \A c \in 1..Len(calls) :
        LET values == calls[c].arguments
            trend == calls[c].returned
        IN  /\ IF Len(values) < 2 \/ FirstSum(values) = 0
               THEN trend = 0
               ELSE 2 * Abs(trend * FirstSum(values)
                              - 10000 * (LastSum(values) - FirstSum(values)))
                        <= Abs(FirstSum(values))
            /\ values = RisingTemperatures => trend = 4545

\* The trend of 20,21,22,23,24,30,31,32,33,34 has been computed.
C14_Witness ==
    \E c \in 1..Len(calls) :
        /\ calls[c].arguments = RisingTemperatures
        /\ calls[c].returned = 4545

\* The ongoing windows that started first.
EarliestOngoing(t) ==
    { e \in OngoingAt(t) : \A o \in OngoingAt(t) : e.start_time <= o.start_time }

\* C15: when several exam windows are ongoing with different strict thresholds, the
\* threshold applied to a reading is that of the ongoing window with the earliest
\* start time, on every evaluation: the reading raises NOISE_HIGH (alerts enabled,
\* cooldown free) iff its noise exceeds that window's strict_noise_threshold.
\* Two readings with the same noise evaluated against the same set of windows get the
\* same answer.
C15_EarliestWindowApplies ==
    /\ \A j \in 1..Len(readings) :
        (Cardinality(OngoingAt(readings[j].timestamp)) > 1 /\ CooldownFree(j, "NOISE_HIGH")) =>
            \A e \in EarliestOngoing(readings[j].timestamp) :
                EarliestOngoing(readings[j].timestamp) = { e } =>
                    (Raised(j, "NOISE_HIGH") <=>
                        readings[j].noise_level > e.strict_noise_threshold)
    /\ \A i, j \in 1..Len(readings) :
        ( /\ Cardinality(OngoingAt(readings[i].timestamp)) > 1
          /\ OngoingAt(readings[i].timestamp) = OngoingAt(readings[j].timestamp)
          /\ readings[i].noise_level = readings[j].noise_level
          /\ CooldownFree(i, "NOISE_HIGH") /\ CooldownFree(j, "NOISE_HIGH") ) =>
            (Raised(i, "NOISE_HIGH") <=> Raised(j, "NOISE_HIGH"))

\* C16: the anomaly classification tests the noise against the same effective
\* threshold as the noise rule: a reading that raises NOISE_HIGH and exceeds neither
\* the temperature nor the air-quality threshold is stored with is_anomaly = true
\* and anomaly_type = high_noise, also while an exam window is ongoing.
C16_AnomalyUsesEffectiveNoise ==
    \A j \in 1..Len(readings) :
        ( /\ Raised(j, "NOISE_HIGH")
          /\ readings[j].temperature <= Cfg.temp_threshold
          /\ readings[j].air_quality <= Cfg.air_quality_threshold ) =>
            /\ readings[j].is_anomaly
            /\ readings[j].anomaly_type = "high_noise"

\* C17: while a reading is processed, none of its side effects is in the stored
\* state before all four rules have been evaluated: as long as a request still has
\* a rule or a dispatch ahead of it, no device has been switched on for its reading
\* and no AlertLog row exists for it.
C17_NoCommitBeforeAllRules ==
    \A r \in Reqs :
        reqs[r].pc \in { "rule", "send" } =>
            /\ ~ (reqs[r].env.ac_activated /\ \E d \in DOMAIN controls :
                    controls[d].device_type = "AC" /\ controls[d].is_active)
            /\ ~ (reqs[r].env.ventilation_activated /\ \E d \in DOMAIN controls :
                    controls[d].device_type = "FAN" /\ controls[d].is_active)
            /\ \A i \in 1..Len(alerts) : alerts[i].data # reqs[r].env.id

\* The step in which request r passes the cooldown query, and the one in which it
\* returns from send_alert.
Passing(r) == reqs[r].pc = "rule" /\ reqs'[r].pc = "send"
Sending(r) == reqs[r].pc = "send" /\ reqs'[r].pc # "send"

C18_Step ==
    \A r \in Reqs :
        /\ Passing(r) =>
            /\ CooldownFreeNow(rule_alert_type(RULES[reqs[r].rule]))
            /\ alerts' = alerts
            /\ \A o \in Reqs \ { r } : reqs'[o] = reqs[o]
        /\ ( /\ reqs[r].pc = "rule" /\ reqs'[r] # reqs[r]
             /\ rule_fires(RULES[reqs[r].rule], reqs[r].env, reqs[r].noise_threshold,
                           reqs[r].config)
             /\ reqs[r].config.alerts_enabled
             /\ CooldownFreeNow(rule_alert_type(RULES[reqs[r].rule])) ) => Passing(r)
        /\ Sending(r) =>
            /\ Cardinality(NewRows(rule_alert_type(RULES[reqs[r].rule]))) = 2
            /\ \A i \in (Len(alerts) + 1)..Len(alerts') : alerts'[i].data = reqs[r].env.id

\* C18: the cooldown check reads the recorded rows only and takes no lock or
\* reservation: a request passes it whenever no row of the kind is recorded within
\* the cooldown, also while another request that has passed it has not recorded
\* its alert yet, and a request that has passed always records its dispatch; so
\* two dispatches of one kind less than cooldown_minutes apart are reachable.
C18_CooldownRace == [][C18_Step]_vars

\* Two dispatches of one kind, for two readings, less than cooldown_minutes apart.
C18_Witness ==
    \E i, j \in 1..Len(alerts) :
        /\ alerts[i].alert_type = alerts[j].alert_type
        /\ alerts[i].data # alerts[j].data
        /\ alerts[i].channel = "SMS" /\ alerts[j].channel = "SMS"
        /\ alerts[j].created_at - alerts[i].created_at < Cfg.alert_cooldown_minutes
        /\ alerts[j].created_at >= alerts[i].created_at

\* The times at which the calls so far stamped device d.
StampsOf(d) == { calls[c].stamps[d] : c \in { k \in 1..Len(calls) : d \in DOMAIN calls[k].stamps } }

\* C19: concurrent activate calls lose no update: once every call has finished,
\* each device a call stamped is active and its last_activated is the latest of
\* the times it was stamped with, no older copy of the row having overwritten it.
C19_NoLostUpdate ==
    (\A r \in Reqs : reqs[r].pc = "idle") =>
        \A d \in DOMAIN controls :
            StampsOf(d) # {} =>
                /\ controls[d].is_active
                /\ \A t \in StampsOf(d) : controls[d].last_activated[1] >= t

\* The step that serves a reading whose NOISE_HIGH alert fires.
NoiseAlertFires == Len(readings') = Len(readings) + 1 /\ NewRows("NOISE_HIGH") # {}

\* The step with the SCREEN devices switched on and stamped.
C20_Step ==
    NoiseAlertFires =>
        LET r == readings'[Len(readings')]
            cfg == configs'[1]
        IN  /\ \A i \in NewRows("NOISE_HIGH") : alerts'[i].severity = "high"
            /\ r.alert_sent
            /\ Actuated("SCREEN")
            /\ ~ (r.temperature > cfg.temp_threshold /\ cfg.auto_ac_enabled) => Untouched("AC")
            /\ ~ (r.air_quality > cfg.air_quality_threshold /\ cfg.auto_ventilation_enabled)
                    => Untouched("FAN")

\* C20 as stated: when the NOISE_HIGH alert fires it has severity high, alert_sent
\* is set, a SCREEN actuation is triggered in the same evaluation whatever the
\* auto flags are, and no AC or FAN device is actuated because of noise.
C20_NoiseAlertActuatesScreen == [][C20_Step]_vars

\* The step with the SCREEN and ALARM devices left as they were.
C20_AmendedStep ==
    NoiseAlertFires =>
        LET r == readings'[Len(readings')]
            cfg == configs'[1]
        IN  /\ \A i \in NewRows("NOISE_HIGH") : alerts'[i].severity = "high"
            /\ r.alert_sent
            /\ Untouched("SCREEN") /\ Untouched("ALARM")
            /\ ~ (r.temperature > cfg.temp_threshold /\ cfg.auto_ac_enabled) => Untouched("AC")
            /\ ~ (r.air_quality > cfg.air_quality_threshold /\ cfg.auto_ventilation_enabled)
                    => Untouched("FAN")

\* C20 amended: when the NOISE_HIGH alert fires it has severity high and alert_sent
\* is set; no device of any category is actuated because of noise: the SCREEN (and
\* ALARM) devices are left as they were, and the AC and FAN devices are touched
\* only when the temperature or the air-quality rule fires for the same reading.
C20_NoiseAlertActuatesNothing == [][C20_AmendedStep]_vars

\* A NOISE_HIGH alert was raised for a hot reading with auto_ac_enabled cleared: the
\* screen is off and so are the AC devices.
C20_Witness ==
    \E j \in 1..Len(readings) :
        /\ Raised(j, "NOISE_HIGH")
        /\ readings[j].alert_sent
        /\ readings[j].temperature > Cfg.temp_threshold
        /\ ~ Cfg.auto_ac_enabled
        /\ "screen_1" \in DOMAIN controls /\ ~ controls["screen_1"].is_active
        /\ ~ controls["ac_1"].is_active

\* The step that serves a reading, for the temperature rule.
C21_Step ==
    Len(readings') = Len(readings) + 1 =>
        LET r == readings'[Len(readings')]
            cfg == configs'[1]
            hot == r.temperature > cfg.temp_threshold /\ cfg.auto_ac_enabled
        IN  /\ r.ac_activated = hot
            /\ response'.automation[1].ac_activated = hot
            /\ IF hot THEN Actuated("AC") ELSE Untouched("AC")
            /\ NewRows("TEMP_HIGH") # {} <=>
                    hot /\ cfg.alerts_enabled /\ CooldownFreeNow("TEMP_HIGH")
            /\ \A i \in NewRows("TEMP_HIGH") :
                    /\ alerts'[i].severity = "medium"
                    /\ alerts'[i].message.value = r.temperature
                    /\ alerts'[i].data = r.id

\* C21: the AC devices are actuated and ac_activated is set iff temperature >
\* temp_threshold and auto_ac_enabled, whatever alerts_enabled and the cooldown are;
\* a TEMP_HIGH alert (severity medium, the temperature in its message) is raised
\* only inside that case, so never with auto_ac_enabled false.
C21_AcIffHotAndEnabled == [][C21_Step]_vars

\* Two hot readings in a row: the second one's TEMP_HIGH alert is held back by the
\* cooldown, and its AC actuation happened all the same.
C21_Witness ==
    \E j \in 2..Len(readings) :
        /\ Raised(j - 1, "TEMP_HIGH")
        /\ readings[j].temperature > Cfg.temp_threshold
        /\ ~ Raised(j, "TEMP_HIGH")
        /\ readings[j].ac_activated
        /\ readings[j].timestamp > readings[j - 1].timestamp
        /\ "ac_1" \in DOMAIN controls
        /\ controls["ac_1"].last_activated = Some(readings[j].timestamp)

\* The metrics of reading j above their configured thresholds.
TempExceeds(j) == readings[j].temperature > Cfg.temp_threshold
NoiseExceeds(j) == readings[j].noise_level > Cfg.noise_threshold
AirExceeds(j) == readings[j].air_quality > Cfg.air_quality_threshold

\* C22: the rule-based classification is single-valued with priority temperature >
\* noise > air quality: is_anomaly iff some metric exceeds its threshold, and
\* anomaly_type is high_temperature, else high_noise, else poor_air_quality after
\* the first metric that exceeds; with none exceeding is_anomaly is false and
\* anomaly_type is empty.
C22_ClassificationPriority ==
    \A j \in 1..Len(readings) :
        /\ readings[j].is_anomaly <=> (TempExceeds(j) \/ NoiseExceeds(j) \/ AirExceeds(j))
        /\ readings[j].anomaly_type =
               IF TempExceeds(j) THEN "high_temperature"
               ELSE IF NoiseExceeds(j) THEN "high_noise"
               ELSE IF AirExceeds(j) THEN "poor_air_quality"
               ELSE "None"
        /\ readings[j].ai_score = None

\* One stored reading with temperature and noise both above threshold, classified
\* high_temperature, and another with noise and air quality above, classified
\* high_noise.
C22_Witness ==
    \E j, k \in 1..Len(readings) :
        /\ TempExceeds(j) /\ NoiseExceeds(j)
        /\ readings[j].anomaly_type = "high_temperature"
        /\ ~ TempExceeds(k) /\ NoiseExceeds(k) /\ AirExceeds(k)
        /\ readings[k].anomaly_type = "high_noise"

\* C23: an ANOMALY alert is raised for a reading iff the reading is classified
\* anomalous, ai_analysis_enabled and alerts_enabled are true and the cooldown allows
\* ANOMALY; its severity is medium, and it is raised whatever TEMP_HIGH, AIR_POOR or
\* NOISE_HIGH alerts the same reading raised.
C23_AnomalyAlert ==
    \A j \in 1..Len(readings) :
        /\ Raised(j, "ANOMALY") <=>
                /\ readings[j].is_anomaly
                /\ Cfg.ai_analysis_enabled
                /\ Cfg.alerts_enabled
                /\ CooldownFree(j, "ANOMALY")
        /\ \A i \in RowsOf(j, "ANOMALY") : alerts[i].severity = "medium"

\* One reading with a TEMP_HIGH, an AIR_POOR, a NOISE_HIGH and an ANOMALY alert.
C23_Witness ==
    \E j \in 1..Len(readings) :
        /\ Raised(j, "TEMP_HIGH")
        /\ Raised(j, "AIR_POOR")
        /\ Raised(j, "NOISE_HIGH")
        /\ Raised(j, "ANOMALY")

\* No device is switched off and no activation stamp moves back or is cleared.
C24_Step ==
    \A d \in DOMAIN controls :
        /\ d \in DOMAIN controls'
        /\ controls[d].is_active => controls'[d].is_active
        /\ controls[d].last_activated # None =>
                /\ controls'[d].last_activated # None
                /\ controls'[d].last_activated[1] >= controls[d].last_activated[1]

C25_SequentialSeparation ==
    \A i, k \in 1..Len(alerts) :
        (alerts[i].alert_type = alerts[k].alert_type /\ alerts[i].data # alerts[k].data) =>
            Abs(alerts[i].created_at - alerts[k].created_at) > Cfg.alert_cooldown_minutes

\* Two readings dispatched the same kind as close together as the cooldown lets
\* them: one minute more than the window apart.
C25_Witness ==
    \E i, k \in 1..Len(alerts) :
        /\ alerts[i].alert_type = alerts[k].alert_type
        /\ alerts[i].data # alerts[k].data
        /\ alerts[k].created_at - alerts[i].created_at = Cfg.alert_cooldown_minutes + 1

\* C26: the result of run_automation lists an alert kind in alerts_sent only if at
\* least one delivery record of that kind was created for the reading; when the
\* record creation fails inside send_alert, the kind is not reported as sent.
C26_ReportedOnlyIfRecorded ==
    \A label \in SentLabels : RowsOf(response.reading_id[1], KindOf(label)) # {}

\* A step taken while alerts_enabled is false.
C27_Step ==
    (configs' # << >> /\ ~ configs'[1].alerts_enabled) =>
        /\ alerts' = alerts
        /\ Len(readings') = Len(readings) + 1 =>
               LET r == readings'[Len(readings')]
                   cfg == configs'[1]
               IN  /\ ~ r.alert_sent
                   /\ response'.automation[1].alerts_sent = << >>
                   /\ (r.temperature > cfg.temp_threshold /\ cfg.auto_ac_enabled) =>
                          r.ac_activated /\ Actuated("AC")
                   /\ (r.air_quality > cfg.air_quality_threshold
                          /\ cfg.auto_ventilation_enabled) =>
                          r.ventilation_activated /\ Actuated("FAN")

\* C27: while alerts_enabled is false no alert record of any kind is created by any
\* sequence of processed readings and the alert history is left unchanged, while AC
\* and FAN actuation still happens for readings above their thresholds when the
\* corresponding auto-enable flag is true.
C27_AlertsDisabled == [][C27_Step]_vars

\* With alerts disabled, a reading above all three thresholds was served: the AC
\* and the fan are on, stamped with its time, and there is no alert record.
C27_Witness ==
    \E j \in 1..Len(readings) :
        /\ ~ Cfg.alerts_enabled
        /\ TempExceeds(j) /\ NoiseExceeds(j) /\ AirExceeds(j)
        /\ readings[j].ac_activated /\ readings[j].ventilation_activated
        /\ ~ readings[j].alert_sent
        /\ DOMAIN controls = DOMAIN Provisioned
        /\ controls["ac_1"].is_active
        /\ controls["ac_1"].last_activated = Some(readings[j].timestamp)
        /\ controls["fan_1"].is_active
        /\ controls["fan_1"].last_activated = Some(readings[j].timestamp)
        /\ alerts = << >>

====
